---- MODULE Spec2Model ----
(***************************************************************************)
(* python-utest: MethodTest.run, MethodTest.harness and MethodTestAdapter  *)
(* as a state machine.  One MethodTest instance is constructed (Init), and *)
(* the caller then calls run() up to MaxRuns times.  A call of run() is    *)
(* the steps RunBegin (the call, line 273), RunChecks (lines 275-300),     *)
(* one TestStep for every iteration of the for-loop, and RunReturn.        *)
(*                                                                         *)
(* Python values are records tagged by their field name: None is           *)
(* [none |-> TRUE], a bool [bool |-> b], a str [str |-> "..."], an int     *)
(* [int |-> n], an exception object [type |-> "ValueError", msg |-> "..."],*)
(* a dict [dict |-> f], a list [list |-> <<...>>].  A str used as a test   *)
(* identifier is [chars |-> <<"S", "1">>], so that tid[0] and the          *)
(* byte-wise order of str can be computed.  Suite keys are str.            *)
(***************************************************************************)
EXTENDS Integers, Sequences, FiniteSets, TLC

VARIABLES
    method,     \* self.method: the tested (unbound) method
    suite,      \* self.suite: the list of (level, tid, test)
    moduleLog,  \* the binding log of the tested method's module
    statement,  \* contents of the list self.statement refers to
    ledger,     \* contents of the caller's own list (the external ledger)
    bound,      \* TRUE when self.statement is the caller's list itself
    pc,         \* "idle" between calls of run(), "checks" before the checks
                \* of its arguments, "loop" inside its for-loop
    idx,        \* position of the for-loop in self.suite
    variant,    \* run()'s argument variant while the call runs
    skip,       \* run()'s argument skip while the call runs
    single,     \* run()'s argument single while the call runs
    result,     \* how the last call of run() ended: returned, or the exception
    runs,       \* calls of run() made so far
    base,       \* length of self.statement when the current loop started
    invoked,    \* invocations of the tested method by the current call
    passed      \* whether the current call was given the caller's list

vars == <<method, suite, moduleLog, statement, ledger, bound, pc, idx, variant,
          skip, single, result, runs, base, invoked, passed>>

(* ----------------------------- bounds ---------------------------------- *)

MaxRuns == 2

MaxSuite == 2

(* --------------------------- Python values ----------------------------- *)

PyNone == [none |-> TRUE]

PyBool(b) == [bool |-> b]

PyStr(s) == [str |-> s]

PyInt(n) == [int |-> n]

PyTid(cs) == [chars |-> cs]

PyExc(t, m) == [type |-> t, msg |-> m]

PyDict(f) == [dict |-> f]

PyList(xs) == [list |-> xs]

\* bool(v)
Truthy(v) ==
    IF "none" \in DOMAIN v THEN FALSE
    ELSE IF "bool" \in DOMAIN v THEN v.bool
    ELSE IF "str" \in DOMAIN v THEN v.str # ""
    ELSE IF "chars" \in DOMAIN v THEN v.chars # <<>>
    ELSE IF "int" \in DOMAIN v THEN v.int # 0
    ELSE IF "dict" \in DOMAIN v THEN DOMAIN v.dict # {}
    ELSE IF "list" \in DOMAIN v THEN v.list # <<>>
    ELSE TRUE

\* isinstance(v, str)
IsStr(v) == "str" \in DOMAIN v \/ "chars" \in DOMAIN v

\* isinstance(v, dict)
IsDict(v) == "dict" \in DOMAIN v

RECURSIVE Join(_)
\* the text of a str held as characters
Join(cs) == IF cs = <<>> THEN "" ELSE Head(cs) \o Join(Tail(cs))

\* a str value as text, whichever way it is held
Text(v) == IF "chars" \in DOMAIN v THEN Join(v.chars) ELSE v.str

\* repr() of the text of a str: in double quotes when the text holds an
\* apostrophe (and no double quote), in single quotes otherwise
Quoted(s) ==
    IF \E i \in 1..Len(s) : SubSeq(s, i, i) = "'"
    THEN "\"" \o s \o "\""
    ELSE "'" \o s \o "'"

\* repr() of a str, an int, None, an empty list or an exception object
Repr(v) ==
    IF "none" \in DOMAIN v THEN "None"
    ELSE IF "list" \in DOMAIN v THEN "[]"
    ELSE IF "int" \in DOMAIN v THEN ToString(v.int)
    ELSE IF "type" \in DOMAIN v
         THEN IF v.msg = "" THEN v.type \o "()"
              ELSE v.type \o "(" \o Quoted(v.msg) \o ",)"
    ELSE Quoted(Text(v))

(* ------------------------ levels and marks ----------------------------- *)

LEVELS == <<"X", "E", "W", "I", "S">>

SUCCEEDED == 0

SKIPPED == 1

FAILED == 2

CRASHED == 3

\* the level of a tid that is not a non-empty str: None, which Python 2
\* orders before every int
NoLevel == -2

\* str.find of one character in LEVELS: its 0-based place, or -1
Find(c) ==
    IF \E k \in 1..Len(LEVELS) : LEVELS[k] = c
    THEN (CHOOSE k \in 1..Len(LEVELS) : LEVELS[k] = c) - 1
    ELSE -1

_tid_level(tid) ==
    IF IsStr(tid) /\ Truthy(tid) THEN Find(tid.chars[1]) ELSE NoLevel

_level_raises(level) == LEVELS[level + 1] \in {"X", "E"}

\* _level_logs with the letter I left out
_level_logs_EW(level) == LEVELS[level + 1] \in {"E", "W"}

_level_logs(level) == LEVELS[level + 1] \in {"E", "W", "I"}

(* ----------------------- the order of str ------------------------------ *)

\* ord() of the characters test identifiers are made of
Ord ==
    ("1" :> 49) @@ ("2" :> 50) @@ ("E" :> 69) @@ ("I" :> 73) @@ ("S" :> 83)
    @@ ("W" :> 87) @@ ("X" :> 88) @@ ("a" :> 97)

RECURSIVE CharsLess(_, _)
\* a < b for two str, character by character
CharsLess(a, b) ==
    IF b = <<>> THEN FALSE
    ELSE IF a = <<>> THEN TRUE
    ELSE IF Ord[Head(a)] # Ord[Head(b)] THEN Ord[Head(a)] < Ord[Head(b)]
    ELSE CharsLess(Tail(a), Tail(b))

\* KeyLess with the level left out of the key
KeyLess_TidOnly(p, q) == CharsLess(p[2].chars, q[2].chars)

\* (level, tid) < (level, tid), the key of the sort in __init__
KeyLess(p, q) ==
    \/ p[1] < q[1]
    \/ p[1] = q[1] /\ CharsLess(p[2].chars, q[2].chars)

RECURSIVE SortItems(_)
\* list.sort(key=(level, tid)) of a set of (level, tid, test)
SortItems(items) ==
    IF items = {} THEN <<>>
    ELSE LET first == CHOOSE p \in items :
                          \A q \in items \ {p} : KeyLess(p, q)
         IN  <<first>> \o SortItems(items \ {first})

\* MethodTest.__init__: the suite dict as the ordered list self.suite
MakeSuite(d) ==
    SortItems({<<_tid_level(t), t, d[t]>> : t \in DOMAIN d})

(* ------------------------- message tagging ----------------------------- *)

error(msg) == "E: " \o msg

warn(msg) == "W: " \o msg

info(msg) == "I: " \o msg

RECURSIVE JoinComma(_)
\* ', '.join(seq)
JoinComma(seq) ==
    IF seq = <<>> THEN ""
    ELSE IF Len(seq) = 1 THEN seq[1]
    ELSE seq[1] \o ", " \o JoinComma(Tail(seq))

(* ------------------------- the tested methods -------------------------- *)

NoExc == PyExc("", "")

\* dict.get(key, default)
Get(d, key, default) == IF key \in DOMAIN d THEN d[key] ELSE default

\* dict.update(u)
Update(d, u) ==
    [k \in DOMAIN d \cup DOMAIN u |-> IF k \in DOMAIN u THEN u[k] ELSE d[k]]

\* what a call of a method leaves: the exception it raised (NoExc: none),
\* the value it returned, the sandbox's __dict__ and the messages it logged
Outcome(e, r, sb, lg) == [exc |-> e, ret |-> r, sandbox |-> sb, logged |-> lg]

\* the TypeError of a call with the wrong number of arguments
ArityError(name, takes, given) ==
    PyExc("TypeError",
          name \o "() takes exactly " \o ToString(takes) \o " arguments ("
          \o ToString(given) \o " given)")

\* Accum.add(self, grade), with log bound to the Logger Double or unbound
Accum_add(sb, args, binding) ==
    IF Len(args) # 1 THEN
        Outcome(ArityError("add", 2, Len(args) + 1), PyNone, sb, <<>>)
    ELSE LET grade == args[1].int IN
    IF ~(1 <= grade /\ grade <= 5) THEN
        Outcome(PyExc("ValueError",
                      "grade=" \o ToString(grade) \o " is out of range"),
                PyNone, sb, <<>>)
    ELSE IF binding = "absent" THEN
        Outcome(PyExc("NameError", "global name 'log' is not defined"),
                PyNone, sb, <<>>)
    ELSE LET lg == IF binding = "double"
                   THEN <<info("add: x=" \o ToString(grade))>>
                   ELSE <<>> IN
    IF "s" \notin DOMAIN sb THEN
        Outcome(PyExc("AttributeError",
                      "'Accum' object has no attribute 's'"),
                PyNone, sb, lg)
    ELSE LET sb1 == Update(sb, [s |-> PyInt(sb["s"].int + grade)]) IN
    IF "n" \notin DOMAIN sb1 THEN
        Outcome(PyExc("AttributeError",
                      "'Accum' object has no attribute 'n'"),
                PyNone, sb1, lg)
    ELSE LET sb2 == Update(sb1, [n |-> PyInt(sb1["n"].int + 1)]) IN
        Outcome(NoExc, sb2["n"], sb2, lg)

\* MyClass.my_method(self): pass
MyClass_my_method(sb, args, binding) ==
    IF Len(args) # 0
    THEN Outcome(ArityError("my_method", 1, Len(args) + 1), PyNone, sb, <<>>)
    ELSE Outcome(NoExc, PyNone, sb, <<>>)

\* a method that changes in place the list it is passed and the list
\* attribute items of its object:
\*     def push(self, more):
\*         more.append(0); self.items.append(0)
\*         return len(self.items) + len(more)
\* out is what the call leaves, args the contents of the objects it was
\* passed after the call
Push(sb, args) ==
    IF Len(args) # 1 THEN
        [out |-> Outcome(ArityError("push", 2, Len(args) + 1), PyNone, sb,
                         <<>>),
         args |-> args]
    ELSE LET more == PyList(Append(args[1].list, PyInt(0))) IN
    IF "items" \notin DOMAIN sb THEN
        [out |-> Outcome(PyExc("AttributeError",
                               "'Stack' object has no attribute 'items'"),
                         PyNone, sb, <<>>),
         args |-> <<more>>]
    ELSE LET items == PyList(Append(sb["items"].list, PyInt(0))) IN
        [out |-> Outcome(NoExc, PyInt(Len(items.list) + Len(more.list)),
                         Update(sb, [items |-> items]), <<>>),
         args |-> <<more>>]

Push_method(sb, args, binding) == Push(sb, args).out

\* a method that ends the interpreter: raise SystemExit()
Exit_method(sb, args, binding) ==
    Outcome(PyExc("SystemExit", ""), PyNone, sb, <<>>)

\* self.method(self.sandbox, *args)
CallMethod(m, sb, args, binding) ==
    CASE m = "add" -> Accum_add(sb, args, binding)
      [] m = "my_method" -> MyClass_my_method(sb, args, binding)
      [] m = "push" -> Push_method(sb, args, binding)
      [] OTHER -> Exit_method(sb, args, binding)

\* isinstance(e, Exception): SystemExit, KeyboardInterrupt and GeneratorExit
\* derive from BaseException only
IsException(e) ==
    e.type \notin {"SystemExit", "KeyboardInterrupt", "GeneratorExit"}

(* --------------------------- MethodTestAdapter ------------------------- *)

\* MethodTestAdapter.__init__: self.test
AdapterTest(test) == IF Truthy(test) THEN test.dict ELSE <<>>

\* deepcopy that hands back the object it was given
Deepcopy_Alias(x) == [same |-> TRUE, val |-> x]

\* deepcopy(x): another object (same is FALSE) with the contents of x
Deepcopy(x) == [same |-> FALSE, val |-> x]

\* MethodTestAdapter.setup: the exception of the sandbox's construction
\* (NoExc: none) and the sandbox's __dict__.  A mock is the name of what the
\* function does; "boom" raises RuntimeError('boom',)
AdapterSetup(t) ==
    LET mocks == Get(t, "mocks", <<>>)
        init == Get(mocks, "__init__", "stub")
    IN  IF init = "boom"
        THEN [exc |-> PyExc("RuntimeError", "boom"), sandbox |-> <<>>]
        ELSE [exc |-> NoExc,
              sandbox |-> Update(<<>>, Deepcopy(Get(t, "setup", <<>>)).val)]

\* MethodTestAdapter.run
AdapterRun(m, t, sb, binding) ==
    CallMethod(m, sb, Deepcopy(Get(t, "args", <<>>)).val, binding)

\* the objects the call of method m was passed, after the call
ArgsLeft(m, sb, args) == IF m = "push" THEN Push(sb, args).args ELSE args

\* the attributes whose object method m changes in place (the others it
\* binds to new objects)
InPlaceAttrs(m) == IF m = "push" THEN {"items"} ELSE {}

\* the descriptor after setup() and run(): what the method changed in place
\* is the descriptor's own object when the adapter passed it uncopied
Fixtures(m, test, binding) ==
    LET t == AdapterTest(test)
        su == AdapterSetup(t)
        args == Deepcopy(Get(t, "args", <<>>))
        setup == Deepcopy(Get(t, "setup", <<>>))
        out == AdapterRun(m, t, su.sandbox, binding)
        setupLeft ==
            [a \in DOMAIN setup.val |->
                IF a \in InPlaceAttrs(m) /\ a \in DOMAIN out.sandbox
                THEN out.sandbox[a] ELSE setup.val[a]]
        t1 == IF "args" \in DOMAIN t /\ args.same
              THEN [t EXCEPT !["args"] = ArgsLeft(m, su.sandbox, args.val)]
              ELSE t
        t2 == IF "setup" \in DOMAIN t1 /\ setup.same
              THEN [t1 EXCEPT !["setup"] = setupLeft]
              ELSE t1
    IN  IF Truthy(test) THEN PyDict(t2) ELSE test

\* the attribute names of the sandboxes, in sorted() order
AttrOrder == <<"n", "s", "x">>

\* Sorted in descending order
Sorted_Descending(names) ==
    SelectSeq(<<"x", "s", "n">>, LAMBDA a : a \in names)

\* sorted(names)
Sorted(names) == SelectSeq(AttrOrder, LAMBDA a : a \in names)

\* the shorten of check(): s[:n], '...', s[-1] and the length
Shorten(s, n) ==
    IF Len(s) > n
    THEN SubSeq(s, 1, n) \o "..." \o SubSeq(s, Len(s), Len(s))
         \o " (" \o ToString(Len(s)) \o ")"
    ELSE s

RECURSIVE FirstDiff(_, _, _)
\* the for-loop of check(): the message of the first attribute that differs
FirstDiff(attrs, actual, expected) ==
    IF attrs = <<>> THEN PyNone
    ELSE LET attr == Head(attrs) IN
         IF actual[attr] # expected[attr]
         THEN PyStr("invalid attribute " \o attr \o "="
                    \o Shorten(Repr(actual[attr]), 100) \o ", expected "
                    \o Shorten(Repr(expected[attr]), 100))
         ELSE FirstDiff(Tail(attrs), actual, expected)

\* KeysDiffer that looks only for missed attributes
KeysDiffer_Missed(actual, expected) == expected \ actual # {}

\* line 711 of check(): actual != expected, two key views compared as sets
KeysDiffer(actual, expected) == actual # expected

\* MethodTestAdapter.check: None, or the message of the mismatch
AdapterCheck(t, returns, sb) ==
    IF "returns" \in DOMAIN t /\ returns # t["returns"]
    THEN PyStr("invalid returns=" \o Repr(returns) \o ", expected "
               \o Repr(t["returns"]))
    ELSE IF "final" \in DOMAIN t
    THEN LET actual == DOMAIN sb
             expected == DOMAIN t["final"]
         IN  IF KeysDiffer(actual, expected)
             THEN PyStr("invalid attributes set ["
                        \o JoinComma(Sorted(actual)) \o "], expected ["
                        \o JoinComma(Sorted(expected)) \o "], excessive ["
                        \o JoinComma(Sorted(actual \ expected))
                        \o "], missed ["
                        \o JoinComma(Sorted(expected \ actual)) \o "]")
             ELSE FirstDiff(Sorted(expected), sb, t["final"])
    ELSE PyNone

(* ------------------------- MethodTest.harness -------------------------- *)

\* the first try of harness(): the binding of module.log while the test
\* runs.  module.log of a module without log raises AttributeError before
\* the assignment, and nothing is installed
Install(b) == IF b = "absent" THEN "absent" ELSE "double"

\* Restore of a harness() without its finally
Restore_Never(saved, current) == current

\* the finally of harness(): module.log = log_saved, which raises NameError
\* (swallowed) when log_saved was never bound
Restore(saved, current) == IF saved = "absent" THEN current ELSE saved

\* what harness() leaves: the value it returned, or the exception that left
\* it (NoExc: none); the binding of module.log afterwards; whether the tested
\* method was invoked
Harnessed(r, e, b, c) == [ret |-> r, exc |-> e, log |-> b, called |-> c]

\* SameException by the message alone
SameException_MsgOnly(e, expected) == e.msg = expected.msg

\* lines 544-545 of harness(): type(e) is type(test_raises) and
\* repr(e) == repr(test_raises)
SameException(e, expected) ==
    e.type = expected.type /\ Repr(e) = Repr(expected)

\* LogsDiffer that looks only for the declared messages among the logged
LogsDiffer_Missing(logged, declared) ==
    \E k \in 1..Len(declared) :
        \A j \in 1..Len(logged) : logged[j] # declared[k]

\* line 557 of harness(): log.logged != test['logs'], two lists compared
\* by value and in order
LogsDiffer(logged, declared) == logged # declared

\* Verdict that ends with success when the declared exception was raised
Verdict_ExceptionEnds(test, out) ==
    LET t == AdapterTest(test)
        test_raises == Get(test.dict, "raises", PyNone)
        raised == out.exc # NoExc
    IN  IF raised /\ ~Truthy(test_raises)
        THEN PyStr("unexpected exception " \o Repr(out.exc))
        ELSE IF raised /\ ~SameException(out.exc, test_raises)
        THEN PyStr("different exception " \o Repr(out.exc) \o ", expected "
                   \o Repr(test_raises))
        ELSE IF raised THEN PyNone
        ELSE IF Truthy(test_raises)
        THEN PyStr("missed exception, expected " \o Repr(test_raises))
        ELSE LET mismatch == AdapterCheck(t, out.ret, out.sandbox) IN
        IF Truthy(mismatch) THEN mismatch
        ELSE IF /\ "logs" \in DOMAIN test.dict
                /\ LogsDiffer(out.logged, test.dict["logs"])
        THEN PyStr("different log [" \o JoinComma(out.logged)
                   \o "], expected [" \o JoinComma(test.dict["logs"]) \o "]")
        ELSE PyNone

\* lines 537-562 of harness(): the verdict on the outcome of adapter.run()
Verdict(test, out) ==
    LET t == AdapterTest(test)
        test_raises == Get(test.dict, "raises", PyNone)
        raised == out.exc # NoExc
    IN  IF raised /\ ~Truthy(test_raises)
        THEN PyStr("unexpected exception " \o Repr(out.exc))
        ELSE IF raised /\ ~SameException(out.exc, test_raises)
        THEN PyStr("different exception " \o Repr(out.exc) \o ", expected "
                   \o Repr(test_raises))
        ELSE IF ~raised /\ Truthy(test_raises)
        THEN PyStr("missed exception, expected " \o Repr(test_raises))
        ELSE LET mismatch == AdapterCheck(t, out.ret, out.sandbox) IN
        IF Truthy(mismatch) THEN mismatch
        ELSE IF /\ "logs" \in DOMAIN test.dict
                /\ LogsDiffer(out.logged, test.dict["logs"])
        THEN PyStr("different log [" \o JoinComma(out.logged)
                   \o "], expected [" \o JoinComma(test.dict["logs"]) \o "]")
        ELSE PyNone

\* Harness that reports an exception of setup() as a failure of the test
Harness_SetupCaught(m, test, b) ==
    LET during == Install(b)
        after == Restore(b, during)
        t == AdapterTest(test)
        su == AdapterSetup(t)
    IN  IF su.exc # NoExc
        THEN Harnessed(PyStr("unexpected exception " \o Repr(su.exc)), NoExc,
                       after, FALSE)
        ELSE LET out == AdapterRun(m, t, su.sandbox, during) IN
             IF out.exc # NoExc /\ ~IsException(out.exc)
             THEN Harnessed(PyNone, out.exc, after, TRUE)
             ELSE Harnessed(Verdict(test, out), NoExc, after, TRUE)

\* MethodTest.harness(test) with module.log bound as b
Harness(m, test, b) ==
    LET during == Install(b)
        after == Restore(b, during)
        t == AdapterTest(test)
        su == AdapterSetup(t)
    IN  IF su.exc # NoExc THEN Harnessed(PyNone, su.exc, after, FALSE)
        ELSE LET out == AdapterRun(m, t, su.sandbox, during) IN
             IF out.exc # NoExc /\ ~IsException(out.exc)
             THEN Harnessed(PyNone, out.exc, after, TRUE)
             ELSE Harnessed(Verdict(test, out), NoExc, after, TRUE)

(* --------------------------- MethodTest.run ---------------------------- *)

Rec(tid, mark, msg) == [tid |-> tid, mark |-> mark, msg |-> msg]

\* the shorten of run(): s[:n], '...', s[-1]
ShortenRepr(s, n) ==
    IF Len(s) > n
    THEN SubSeq(s, 1, n) \o "..." \o SubSeq(s, Len(s), Len(s))
    ELSE s

\* 'skip' in test and test['skip'], for a test that may be no dict:
\* "TypeError" when in is not defined for it
OwnSkip(test) ==
    IF IsDict(test)
    THEN IF "skip" \in DOMAIN test.dict /\ Truthy(test.dict["skip"])
         THEN "yes" ELSE "no"
    ELSE IF "list" \in DOMAIN test
    THEN "no"
    ELSE "TypeError"

\* SkipMsg that keeps a skip value of any type
SkipMsg_Any(v) == v

\* the message of a SKIPPED record
SkipMsg(v) == IF IsStr(v) THEN v ELSE PyNone

\* lines 283-300 of run(): the exception the checks of a truthy single
\* raise (NoExc: none)
SingleCheck(st, sg) ==
    IF _tid_level(sg) < 0
    THEN PyExc("ValueError",
               "invalid test identifier single=" \o Repr(sg)
               \o ", must be 'str' starting with one of '" \o Join(LEVELS)
               \o "'")
    ELSE LET tests == SelectSeq(st, LAMBDA e : e[2] = sg) IN
         IF tests = <<>>
         THEN PyExc("ValueError",
                    "test identifier single=" \o Repr(sg) \o ", not found")
         ELSE LET own == OwnSkip(tests[1][3]) IN
              IF own = "TypeError"
              THEN PyExc("TypeError",
                         "argument of type 'NoneType' is not iterable")
              ELSE IF own = "yes"
              THEN PyExc("ValueError",
                         "test identifier single=" \o Repr(sg)
                         \o ", test is skipped individually")
              ELSE NoExc

\* Prologue without the check of skip against single
Prologue_NoMutex(st, vr, sk, sg) ==
    IF Truthy(vr)
    THEN PyExc("NotImplementedError", "Don't use variant parameter!")
    ELSE IF ~Truthy(sg) THEN NoExc
    ELSE SingleCheck(st, sg)

\* lines 275-300 of run(): the exception the checks of the arguments raise
\* (NoExc: none).  The messages are written without their backquotes
Prologue(st, vr, sk, sg) ==
    IF Truthy(vr)
    THEN PyExc("NotImplementedError", "Don't use variant parameter!")
    ELSE IF Truthy(sk) /\ Truthy(sg)
    THEN PyExc("ValueError",
               "skip and single must not be enabled simultaneously")
    ELSE IF ~Truthy(sg) THEN NoExc
    ELSE SingleCheck(st, sg)

\* what one iteration of the for-loop does: kind "omit" (continue without a
\* record), "record" (append rec) or "raise" (exc leaves run()); the binding
\* of module.log afterwards; whether the tested method was invoked
Iterated(k, r, e, b, c) ==
    [kind |-> k, rec |-> r, exc |-> e, log |-> b, called |-> c]

\* lines 335-352 of run(): the message of a descriptor whose shape does not
\* fit its level, or None
ShapeError(level, d) ==
    IF _level_raises(level) # ("raises" \in DOMAIN d)
    THEN PyStr("'raises' is "
               \o (IF "raises" \in DOMAIN d THEN "specified" ELSE "omitted")
               \o " in test descriptor")
    ELSE IF {"raises", "returns"} \subseteq DOMAIN d
    THEN PyStr("'returns' is specified in test descriptor")
    ELSE IF _level_logs(level) /\ "logs" \notin DOMAIN d
    THEN PyStr("'logs' is omitted in test descriptor")
    ELSE PyNone

\* lines 354-362 of run(): the record of an executed test
Classify(tid, failed) ==
    IF Truthy(failed)
    THEN Rec(tid, FAILED, IF IsStr(failed) THEN failed ELSE PyNone)
    ELSE Rec(tid, SUCCEEDED, PyNone)

\* lines 306-362 of run(): the body of the for-loop for a test that single
\* does not omit
Examine(m, level, tid, test, sk, b) ==
    IF Truthy(sk)
    THEN Iterated("record", Rec(tid, SKIPPED, SkipMsg(sk)), NoExc, b, FALSE)
    ELSE IF level < 0
    THEN Iterated("record",
                  Rec(tid, CRASHED,
                      PyStr("invalid test identifier " \o Repr(tid)
                            \o ", must be 'str' starting with one of '"
                            \o Join(LEVELS) \o "'")),
                  NoExc, b, FALSE)
    ELSE IF ~IsDict(test)
    THEN Iterated("record",
                  Rec(tid, CRASHED,
                      PyStr("invalid test descriptor "
                            \o ShortenRepr(Repr(test), 100)
                            \o ", must be 'dict'")),
                  NoExc, b, FALSE)
    ELSE IF OwnSkip(test) = "yes"
    THEN Iterated("record", Rec(tid, SKIPPED, SkipMsg(test.dict["skip"])),
                  NoExc, b, FALSE)
    ELSE IF Truthy(ShapeError(level, test.dict))
    THEN Iterated("record", Rec(tid, CRASHED, ShapeError(level, test.dict)),
                  NoExc, b, FALSE)
    ELSE LET h == Harness(m, test, b) IN
         IF h.exc # NoExc
         THEN Iterated("raise", Rec(tid, CRASHED, PyNone), h.exc, h.log,
                       h.called)
         ELSE Iterated("record", Classify(tid, h.ret), NoExc, h.log, h.called)

\* Iteration that marks the tests single omits as SKIPPED
Iteration_MarksOmitted(m, level, tid, test, sk, sg, b) ==
    IF Truthy(sg) /\ sg # tid
    THEN Iterated("record", Rec(tid, SKIPPED, PyNone), NoExc, b, FALSE)
    ELSE Examine(m, level, tid, test, sk, b)

\* the body of the for-loop, lines 303-362, for one (level, tid, test)
Iteration(m, level, tid, test, sk, sg, b) ==
    IF Truthy(sg) /\ sg # tid
    THEN Iterated("omit", Rec(tid, SKIPPED, PyNone), NoExc, b, FALSE)
    ELSE Examine(m, level, tid, test, sk, b)

(* ------------------------------ reports -------------------------------- *)

MARKS ==
    (SUCCEEDED :> [pict |-> ".", verb |-> "succeeded"])
    @@ (SKIPPED :> [pict |-> "-", verb |-> "skipped"])
    @@ (FAILED :> [pict |-> "!", verb |-> "failed"])
    @@ (CRASHED :> [pict |-> "#", verb |-> "crashed"])

\* MARKS.viewkeys() as it is iterated: the four small ints in the order of
\* their slots in the dict's table, which is the order of their values
MarksKeys == <<SUCCEEDED, SKIPPED, FAILED, CRASHED>>

\* mark >= severity for severity an int or None; in Python 2 every int is
\* greater than None
AtLeast(mark, severity) ==
    IF "none" \in DOMAIN severity THEN TRUE ELSE mark >= severity.int

\* reversed(seq)
Reversed(seq) == [k \in 1..Len(seq) |-> seq[Len(seq) + 1 - k]]

\* Pict with the pictograms of FAILED and SKIPPED exchanged
Pict_Exchanged(mark) ==
    IF mark = FAILED THEN "-" ELSE IF mark = SKIPPED THEN "!"
    ELSE MARKS[mark].pict

\* MethodTest.MARKS[rec['mark']]['pict']
Pict(mark) == MARKS[mark].pict

\* report_bar(): ''.join of the pictograms of self.statement
report_bar ==
    Join([k \in 1..Len(statement) |-> Pict(statement[k].mark)])

\* _slice_statement that also takes the records of higher marks
_slice_statement_AtLeast(mark) ==
    SelectSeq(statement, LAMBDA rec : rec.mark >= mark)

_slice_statement(mark) ==
    SelectSeq(statement, LAMBDA rec : rec.mark = mark)

_filter_marks(severity) ==
    SelectSeq(MarksKeys, LAMBDA mark : AtLeast(mark, severity))

report_totals(severity, zeros) ==
    LET marks == Reversed(_filter_marks(severity))
        tots == [k \in 1..Len(marks) |->
                    [mark |-> marks[k],
                     verb |-> MARKS[marks[k]].verb,
                     num |-> Len(_slice_statement(marks[k]))]]
    IN  SelectSeq(tots, LAMBDA tot : zeros \/ tot.num > 0)

(* ------------------- the suites and arguments explored ----------------- *)

Methods == {"add", "my_method", "exit", "push"}

TidPool ==
    {PyTid(<<>>), PyTid(<<"a">>), PyTid(<<"X", "1">>), PyTid(<<"E", "1">>),
     PyTid(<<"W", "1">>), PyTid(<<"I", "1">>), PyTid(<<"S", "1">>),
     PyTid(<<"S", "2">>)}

Grade7 == PyExc("ValueError", "grade=7 is out of range")

Zeroed == [s |-> PyInt(0), n |-> PyInt(0)]

\* a descriptor for Accum.add with or without raises, returns and logs;
\* grade 7 is out of range, grade 5 is not
Shaped(r, ret, lg) ==
    Update(Update(Update(
        [setup |-> Zeroed, args |-> <<PyInt(IF r THEN 7 ELSE 5)>>],
        IF r THEN [raises |-> Grade7] ELSE <<>>),
        IF ret THEN [returns |-> PyInt(1)] ELSE <<>>),
        IF lg THEN [logs |-> IF r THEN <<>> ELSE <<info("add: x=5")>>]
        ELSE <<>>)

AddDescriptors ==
    {PyDict(Shaped(r, ret, lg)) : r \in BOOLEAN, ret \in BOOLEAN,
                                  lg \in BOOLEAN}
    \cup {PyDict(d) : d \in {
        [args |-> <<PyInt(7)>>,
         raises |-> PyExc("TypeError", "grade=7 is out of range")],
        [args |-> <<PyInt(7)>>,
         raises |-> PyExc("ValueError", "grade=0 is out of range")],
        [args |-> <<PyInt(7)>>, raises |-> Grade7,
         logs |-> <<info("add: x=7")>>],
        [setup |-> Zeroed, args |-> <<PyInt(5)>>, raises |-> Grade7],
        [setup |-> Zeroed, args |-> <<PyInt(7)>>, raises |-> Grade7,
         final |-> [s |-> PyInt(5), n |-> PyInt(1)]],
        [args |-> <<PyInt(7)>>],
        [args |-> <<PyInt(5)>>],
        [setup |-> Zeroed, args |-> <<PyInt(5)>>, final |-> Zeroed],
        [setup |-> Zeroed, args |-> <<PyInt(5)>>,
         final |-> [s |-> PyInt(5), n |-> PyInt(1)]],
        [setup |-> Zeroed, args |-> <<PyInt(5)>>, final |-> [s |-> PyInt(5)]],
        [setup |-> Zeroed, args |-> <<PyInt(5)>>, logs |-> <<>>],
        [skip |-> PyStr("pending fix"), args |-> <<PyInt(5)>>],
        [skip |-> PyBool(TRUE), raises |-> Grade7],
        [skip |-> PyStr(""), setup |-> Zeroed, args |-> <<PyInt(5)>>],
        [mocks |-> [__init__ |-> "boom"], setup |-> Zeroed,
         args |-> <<PyInt(5)>>]}}
    \cup {PyDict(<<>>), PyNone, PyList(<<>>)}

OtherDescriptors ==
    {PyDict(<<>>), PyNone,
     PyDict([raises |-> PyExc("SystemExit", "")]),
     PyDict([raises |-> Grade7]),
     PyDict([returns |-> PyNone, final |-> <<>>, logs |-> <<>>]),
     PyDict([final |-> [x |-> PyInt(0)]]),
     PyDict([skip |-> PyStr("pending fix")])}

\* the fixtures of a test of push: two empty lists
Stacked ==
    [setup |-> [items |-> PyList(<<>>)], args |-> <<PyList(<<>>)>>]

PushDescriptors ==
    {PyDict(Update(Stacked, [returns |-> PyInt(2)])),
     PyDict(Update(Stacked, [returns |-> PyInt(4)])),
     PyDict([args |-> <<PyList(<<>>)>>]),
     PyDict([skip |-> PyStr("pending fix")])}

Descriptors(m) ==
    IF m = "add" THEN AddDescriptors
    ELSE IF m = "push" THEN PushDescriptors
    ELSE OtherDescriptors

\* a suite of several tests: one descriptor for each identifier
Core(m) ==
    IF m = "add" THEN
        (PyTid(<<>>) :> PyDict(<<>>))
        @@ (PyTid(<<"a">>) :> PyDict(Shaped(FALSE, FALSE, FALSE)))
        @@ (PyTid(<<"X", "1">>) :> PyDict(Shaped(TRUE, FALSE, FALSE)))
        @@ (PyTid(<<"E", "1">>) :> PyDict(Shaped(TRUE, FALSE, FALSE)))
        @@ (PyTid(<<"W", "1">>) :> PyNone)
        @@ (PyTid(<<"I", "1">>) :> PyDict(Shaped(FALSE, TRUE, TRUE)))
        @@ (PyTid(<<"S", "1">>) :> PyDict([skip |-> PyStr("pending fix")]))
        @@ (PyTid(<<"S", "2">>) :> PyDict(Shaped(FALSE, FALSE, FALSE)))
    ELSE IF m = "push" THEN
        (PyTid(<<"X", "1">>) :> PyDict(Update(Stacked, [raises |-> Grade7])))
        @@ (PyTid(<<"S", "1">>)
               :> PyDict(Update(Stacked, [returns |-> PyInt(2)])))
        @@ (PyTid(<<"S", "2">>)
               :> PyDict(Update(Stacked, [returns |-> PyInt(2)])))
    ELSE
        (PyTid(<<"X", "1">>) :> PyDict([raises |-> Grade7]))
        @@ (PyTid(<<"I", "1">>) :> PyDict([logs |-> <<>>]))
        @@ (PyTid(<<"S", "2">>) :> PyDict(<<>>))

\* the suite of the simplest example: dict(S={})
Example1 == (PyTid(<<"S">>) :> PyDict(<<>>))

\* the suite dicts a MethodTest for method m is constructed from: the empty
\* one, the simplest example, every single test, and the tests of Core(m)
\* by 2 .. MaxSuite
Suites(m) ==
    {<<>>, Example1}
    \cup {(t :> d) : t \in TidPool, d \in Descriptors(m)}
    \cup {[t \in T |-> Core(m)[t]] :
            T \in {T \in SUBSET DOMAIN Core(m) :
                     Cardinality(T) >= 2 /\ Cardinality(T) <= MaxSuite}}

\* a record some other suite's run left in the caller's list
Foreign == Rec(PyTid(<<"S", "0">>), SUCCEEDED, PyNone)

SkipArgs == {PyNone, PyBool(FALSE), PyBool(TRUE), PyStr("flaky")}

SingleArgs ==
    {PyNone, PyTid(<<>>), PyTid(<<"a">>), PyTid(<<"X", "1">>),
     PyTid(<<"S", "1">>)}

VariantArgs == {PyNone, PyStr("v1")}

(* ------------------------------- actions ------------------------------- *)

Returned == PyExc("returned", "")

NotCalled == PyExc("not called", "")

Init ==
    /\ method \in Methods
    /\ suite \in {MakeSuite(d) : d \in Suites(method)}
    /\ moduleLog \in {"orig", "absent"}
    /\ statement = <<>>
    /\ ledger \in {<<>>, <<Foreign>>}
    /\ bound = FALSE
    /\ pc = "idle"
    /\ idx = 1
    /\ variant = PyNone
    /\ skip = PyNone
    /\ single = PyNone
    /\ result = NotCalled
    /\ runs = 0
    /\ base = 0
    /\ invoked = 0
    /\ passed = FALSE

\* line 273 of run(): the list self.statement is bound to, for the caller's
\* list (its contents) or None
Bind(given, contents) == given /\ contents # <<>>

\* the call run(statement, variant, skip, single) and line 273: given says
\* whether the caller passed their list
RunBegin(given, vr, sk, sg) ==
    /\ pc = "idle"
    /\ runs < MaxRuns
    /\ runs' = runs + 1
    /\ passed' = given
    /\ bound' = Bind(given, ledger)
    /\ statement' = IF Bind(given, ledger) THEN ledger ELSE <<>>
    /\ base' = Len(statement')
    /\ invoked' = 0
    /\ idx' = 1
    /\ pc' = "checks"
    /\ variant' = vr
    /\ skip' = sk
    /\ single' = sg
    /\ UNCHANGED <<method, suite, moduleLog, ledger, result>>

\* lines 275-300 of run(): the checks of the arguments, which raise or
\* let the for-loop begin
RunChecks ==
    /\ pc = "checks"
    /\ LET e == Prologue(suite, variant, skip, single) IN
       IF e # NoExc
       THEN /\ pc' = "idle"
            /\ result' = e
            /\ variant' = PyNone
            /\ skip' = PyNone
            /\ single' = PyNone
       ELSE /\ pc' = "loop"
            /\ UNCHANGED <<result, variant, skip, single>>
    /\ UNCHANGED <<method, suite, moduleLog, statement, ledger, bound, idx,
                   runs, base, invoked, passed>>

\* list.append on self.statement, which may be the caller's list
Append2(rec) ==
    /\ statement' = Append(statement, rec)
    /\ ledger' = IF bound THEN Append(ledger, rec) ELSE ledger

\* one iteration of the for-loop of run()
TestStep ==
    /\ pc = "loop"
    /\ idx <= Len(suite)
    /\ LET it == Iteration(method, suite[idx][1], suite[idx][2],
                           suite[idx][3], skip, single, moduleLog)
       IN  /\ moduleLog' = it.log
           /\ invoked' = invoked + (IF it.called THEN 1 ELSE 0)
           /\ suite' = IF it.called
                        THEN [suite EXCEPT
                                 ![idx][3] = Fixtures(method, @,
                                                      Install(moduleLog))]
                        ELSE suite
           /\ IF it.kind = "raise"
              THEN /\ pc' = "idle"
                   /\ result' = it.exc
                   /\ skip' = PyNone
                   /\ single' = PyNone
                   /\ UNCHANGED <<statement, ledger, idx>>
              ELSE /\ idx' = idx + 1
                   /\ IF it.kind = "record"
                      THEN Append2(it.rec)
                      ELSE UNCHANGED <<statement, ledger>>
                   /\ UNCHANGED <<pc, result, skip, single>>
    /\ UNCHANGED <<method, bound, runs, base, passed, variant>>

\* the end of the for-loop: return self
RunReturn ==
    /\ pc = "loop"
    /\ idx > Len(suite)
    /\ pc' = "idle"
    /\ result' = Returned
    /\ skip' = PyNone
    /\ single' = PyNone
    /\ UNCHANGED <<method, suite, moduleLog, statement, ledger, bound, idx,
                   runs, base, invoked, passed, variant>>

\* a call of run() without a variant, with every combination of the other
\* arguments
Call ==
    \E given \in BOOLEAN, sk \in SkipArgs, sg \in SingleArgs :
        RunBegin(given, PyNone, sk, sg)

\* a call of run() with a variant, which line 276 rejects whatever the
\* other arguments are: it is given the caller's list and two values of
\* skip and of single
CallVariant ==
    \E vr \in VariantArgs \ {PyNone}, sk \in {PyNone, PyBool(TRUE)},
       sg \in {PyNone, PyTid(<<"X", "1">>)} :
        RunBegin(TRUE, vr, sk, sg)

Next == Call \/ CallVariant \/ RunChecks \/ TestStep \/ RunReturn

Spec == Init /\ [][Next]_vars

(* ------------------------------- claims -------------------------------- *)

\* the tids of the records the current call of run() has appended
Segment == [k \in 1..(Len(statement) - base) |-> statement[base + k].tid]

\* the entry of self.suite the for-loop is at
Cur == suite[idx]

\* the for-loop is at an entry that single does not omit
Considering ==
    pc = "loop" /\ idx <= Len(suite) /\ ~(Truthy(single) /\ single # Cur[2])

\* this step appended exactly one record, of mark m
Recorded(m) ==
    /\ Len(statement') = Len(statement) + 1
    /\ statement' = Append(statement, statement'[Len(statement')])
    /\ statement'[Len(statement')].tid = Cur[2]
    /\ statement'[Len(statement')].mark = m

\* the severity group of a tid as the documentation orders them: invalid or
\* unrecognized first, then X, E, W, I, S
Group(tid) ==
    IF tid.chars = <<>> THEN 0
    ELSE CASE tid.chars[1] = "X" -> 1
           [] tid.chars[1] = "E" -> 2
           [] tid.chars[1] = "W" -> 3
           [] tid.chars[1] = "I" -> 4
           [] tid.chars[1] = "S" -> 5
           [] OTHER -> 0

InOrder(a, b) ==
    \/ Group(a) < Group(b)
    \/ Group(a) = Group(b) /\ CharsLess(a.chars, b.chars)

\* C1: the records a call of run() appends are ordered by severity group of
\* the tid (invalid or unrecognized first, then X, E, W, I, S) and by tid
\* within a group; a second full run into the same list repeats the tid
\* order of the first.
C1_Ordered ==
    /\ \A k \in 1..(Len(Segment) - 1) : InOrder(Segment[k], Segment[k + 1])
    /\ (bound /\ runs = 2 /\ statement[1] = Foreign
        /\ base = Len(suite) + 1 /\ Len(Segment) = Len(suite))
       => \A k \in 1..Len(suite) : statement[1 + k].tid = Segment[k]

C1_Witness ==
    /\ pc = "idle" /\ result = Returned /\ bound /\ runs = 2
    /\ Len(suite) = 2 /\ Len(statement) = 5
    /\ Group(Segment[1]) = 1 /\ Group(Segment[2]) = 5

\* C2: a call of run() that is given the caller's list appends to that very
\* list, after its prior contents; a call given no list starts from an
\* empty statement of its own.
C2_SameList ==
    runs > 0 =>
        IF passed
        THEN bound /\ ledger = statement /\ base <= Len(ledger)
        ELSE ~bound /\ base = 0

\* the suite entries among the first n that single does not omit
ConsideredUpTo(n) ==
    SelectSeq(SubSeq(suite, 1, n),
              LAMBDA e : ~(Truthy(single) /\ single # e[2]))

\* C3: a call of run() appends exactly one record per suite entry it
\* considers, in suite order: every entry when single is not given, only
\* the entry whose tid is single when it is; the other tests leave no
\* record.
C3_OnePerConsidered ==
    pc = "loop" =>
        /\ Len(Segment) = Len(ConsideredUpTo(idx - 1))
        /\ \A k \in 1..Len(Segment) :
               Segment[k] = ConsideredUpTo(idx - 1)[k][2]

C3_Witness ==
    /\ pc = "loop" /\ idx > Len(suite) /\ Len(suite) = 2
    /\ Truthy(single) /\ Len(Segment) = 1 /\ Segment[1] = single

\* the arguments C4 says are rejected
C4_Case ==
    \/ Truthy(skip) /\ Truthy(single)
    \/ /\ Truthy(single)
       /\ \/ Group(single) = 0
          \/ \A k \in 1..Len(suite) : suite[k][2] # single
          \/ \E k \in 1..Len(suite) :
                 /\ suite[k][2] = single
                 /\ IsDict(suite[k][3])
                 /\ "skip" \in DOMAIN suite[k][3].dict
                 /\ Truthy(suite[k][3].dict["skip"])

\* the call raised ValueError before its for-loop: no record, no invocation
C4_Rejected ==
    /\ result'.type = "ValueError"
    /\ pc' = "idle"
    /\ statement' = statement
    /\ Len(statement') = base'
    /\ ledger' = ledger
    /\ invoked' = 0

\* C4 as stated: run() raises ValueError before any test whenever skip and
\* single are both given, or single is no valid tid, is not in the suite,
\* or names an individually skipped test.
C4_Original == [][(pc = "checks" /\ C4_Case) => C4_Rejected]_vars

\* C4 amended: the same, for a call whose variant is not truthy (a truthy
\* variant raises NotImplementedError first).
C4_Amended ==
    [][(pc = "checks" /\ ~Truthy(variant) /\ C4_Case) => C4_Rejected]_vars

C4_Witness ==
    /\ pc = "idle" /\ runs = 1 /\ invoked = 0 /\ statement = <<>>
    /\ Len(suite) = 2
    /\ result = PyExc("ValueError",
                      "test identifier single='S1', test is skipped individually")

\* a test C5 is about: a malformed tid, or a descriptor that is no mapping
C5_Malformed(e) == Group(e[2]) = 0 \/ ~IsDict(e[3])

\* C5: a test with a malformed tid or a descriptor that is no mapping is
\* recorded CRASHED without being executed in every call that considers
\* it, whatever the other arguments, and no call is aborted by it.
C5_AlwaysCrashed ==
    [][/\ (Considering /\ C5_Malformed(Cur))
           => (Recorded(CRASHED) /\ invoked' = invoked /\ pc' = "loop")
       /\ (/\ pc = "checks"
           /\ ~Truthy(variant) /\ ~Truthy(skip) /\ Truthy(single)
           /\ Group(single) # 0
           /\ \E k \in 1..Len(suite) :
                  suite[k][2] = single /\ ~IsDict(suite[k][3]))
              => pc' = "loop"]_vars

\* the message a skip value leaves in a SKIPPED record
C6_Msg(v) == IF IsStr(v) THEN v ELSE PyNone

\* the test the loop is at has a descriptor whose own skip is truthy
C6_OwnSkip ==
    /\ IsDict(Cur[3])
    /\ "skip" \in DOMAIN Cur[3].dict
    /\ Truthy(Cur[3].dict["skip"])

\* this step appended a SKIPPED record with the message of a truthy skip
\* value, and did not invoke the tested method
C6_Skipped ==
    /\ Recorded(SKIPPED)
    /\ invoked' = invoked
    /\ \/ Truthy(skip) /\ statement'[Len(statement')].msg = C6_Msg(skip)
       \/ /\ C6_OwnSkip
          /\ statement'[Len(statement')].msg = C6_Msg(Cur[3].dict["skip"])

\* C6 as stated: a considered test is recorded SKIPPED, with the skip value
\* as msg when it is a string and None otherwise, and is not invoked,
\* whenever the skip argument is truthy or its descriptor's own skip is.
C6_Original ==
    [][(Considering /\ (Truthy(skip) \/ C6_OwnSkip)) => C6_Skipped]_vars

\* C6 amended: the same, where the descriptor's own skip counts only for a
\* test whose tid is well-formed (a malformed tid is recorded CRASHED).
C6_Amended ==
    [][(Considering /\ (Truthy(skip) \/ (Group(Cur[2]) # 0 /\ C6_OwnSkip)))
           => C6_Skipped]_vars

C6_Witness ==
    /\ pc = "loop" /\ idx = 2 /\ ~Truthy(skip) /\ invoked = 0
    /\ Len(statement) = 1
    /\ statement[1] = Rec(PyTid(<<"S", "1">>), SKIPPED, PyStr("pending fix"))

\* the level letter of the test the loop is at
C7_Letter == Cur[2].chars[1]

\* the descriptor of the test the loop is at has the field
C7_Has(field) == field \in DOMAIN Cur[3].dict

\* the test the loop is at reaches the checks of its descriptor's shape
C7_Reached ==
    /\ Considering /\ Group(Cur[2]) # 0 /\ IsDict(Cur[3])
    /\ ~Truthy(skip) /\ ~C6_OwnSkip

\* the shapes C7 says are CRASHED
C7_BadShape ==
    \/ (C7_Letter \in {"X", "E"}) # C7_Has("raises")
    \/ C7_Has("raises") /\ C7_Has("returns")
    \/ C7_Letter \in {"E", "W", "I"} /\ ~C7_Has("logs")

C7_OmittedLogs ==
    /\ Recorded(CRASHED)
    /\ statement'[Len(statement')].msg
           = PyStr("'logs' is omitted in test descriptor")

\* C7 as stated: such a test is CRASHED without being executed exactly when
\* its shape is bad; a level-E descriptor with raises and no logs is
\* CRASHED with the message "'logs' is omitted in test descriptor".
C7_Original ==
    [][C7_Reached =>
         /\ (Recorded(CRASHED) /\ invoked' = invoked) <=> C7_BadShape
         /\ (C7_Letter = "E" /\ C7_Has("raises") /\ ~C7_Has("logs"))
                => C7_OmittedLogs]_vars

\* C7 amended: the message is that of the omitted logs when the level-E
\* descriptor has raises, no returns and no logs (with returns the message
\* is "'returns' is specified in test descriptor").
C7_Amended ==
    [][C7_Reached =>
         /\ (Recorded(CRASHED) /\ invoked' = invoked) <=> C7_BadShape
         /\ (C7_Letter = "E" /\ C7_Has("raises") /\ ~C7_Has("returns")
             /\ ~C7_Has("logs"))
                => C7_OmittedLogs]_vars

C7_Witness ==
    /\ pc = "loop" /\ idx = 2 /\ invoked = 0 /\ Len(statement) = 1
    /\ statement[1] = Rec(PyTid(<<"E", "1">>), CRASHED,
                          PyStr("'logs' is omitted in test descriptor"))

\* what the tested method does in the test the loop is at
MethodOutcome ==
    LET t == AdapterTest(Cur[3]) IN
    AdapterRun(method, t, AdapterSetup(t).sandbox, Install(moduleLog))

\* C8: no exception of the tested method, whatever its kind, leaves
\* harness() or run(): the test gets its SUCCEEDED or FAILED record and the
\* loop goes on to the remaining tests.
C8_NeverEscapes ==
    [][(Considering /\ invoked' = invoked + 1)
           => /\ pc' = "loop" /\ idx' = idx + 1
              /\ Recorded(FAILED) \/ Recorded(SUCCEEDED)]_vars

\* C9: an executed test that declares raises is SUCCEEDED only if the
\* method raised an exception of the declared type with the declared text;
\* a different type, a different text or no exception makes it FAILED.
C9_ExactException ==
    [][(/\ Considering /\ invoked' = invoked + 1 /\ pc' = "loop"
        /\ C7_Has("raises"))
           => LET e == MethodOutcome.exc
                  same == /\ e # NoExc
                          /\ e.type = Cur[3].dict["raises"].type
                          /\ e.msg = Cur[3].dict["raises"].msg
              IN  /\ Recorded(SUCCEEDED) => same
                  /\ ~same => Recorded(FAILED)]_vars

C9_Witness ==
    /\ pc = "loop" /\ idx = 2 /\ invoked = 1 /\ Len(statement) = 1
    /\ statement[1] =
           Rec(PyTid(<<"X", "1">>), FAILED,
               PyStr("different exception ValueError('grade=7 is out of range',), expected TypeError('grade=7 is out of range',)"))

\* C10: every step leaves the binding of module.log as it was: the
\* original object if there was one, no binding if there was none; the
\* Logger Double is never left installed.
C10_LogRestored == [][moduleLog' = moduleLog]_vars

C10_Witness ==
    /\ pc = "idle" /\ runs = 1 /\ moduleLog = "orig"
    /\ result = PyExc("RuntimeError", "boom")

\* the tested method raised exactly what the descriptor of the test the
\* loop is at declares, or nothing when it declares nothing
C11_ExceptionPassed ==
    IF C7_Has("raises")
    THEN MethodOutcome.exc = Cur[3].dict["raises"]
    ELSE MethodOutcome.exc = NoExc

\* the return value and the final state passed check()
C11_CheckPassed ==
    AdapterCheck(AdapterTest(Cur[3]), MethodOutcome.ret,
                 MethodOutcome.sandbox) = PyNone

\* C11: an executed test that declares logs and passes the exception,
\* return-value and final-state checks is FAILED exactly when the messages
\* the method logged during this test, in call order, differ from the
\* declared ones; one that declares no logs is then SUCCEEDED whatever was
\* logged.
C11_LogsDecide ==
    [][(/\ Considering /\ invoked' = invoked + 1 /\ pc' = "loop"
        /\ C11_ExceptionPassed /\ C11_CheckPassed)
           => IF C7_Has("logs")
              THEN /\ Recorded(FAILED) \/ Recorded(SUCCEEDED)
                   /\ Recorded(FAILED)
                          <=> MethodOutcome.logged # Cur[3].dict["logs"]
              ELSE Recorded(SUCCEEDED)]_vars

C11_Witness ==
    /\ pc = "loop" /\ idx = 2 /\ invoked = 1 /\ Len(statement) = 1
    /\ moduleLog = "orig"
    /\ statement[1] =
           Rec(PyTid(<<"S", "1">>), FAILED,
               PyStr("different log [I: add: x=5], expected []"))

\* C12: for an executed test that declares final, the record is FAILED
\* whenever the attribute names of the sandbox after the call differ from
\* the keys of final, and it is SUCCEEDED only if the two sets are equal
\* and every attribute equals its declared value.
C12_ClosedWorld ==
    [][(/\ Considering /\ invoked' = invoked + 1 /\ pc' = "loop"
        /\ C7_Has("final"))
           => LET sb == MethodOutcome.sandbox
                  final == Cur[3].dict["final"]
              IN  /\ DOMAIN sb # DOMAIN final => Recorded(FAILED)
                  /\ Recorded(SUCCEEDED)
                        => /\ DOMAIN sb = DOMAIN final
                           /\ \A a \in DOMAIN final : sb[a] = final[a]]_vars

\* an extra attribute fails the test although the declared one has its value
C12_Witness ==
    /\ pc = "loop" /\ invoked = 1 /\ Len(statement) = 1
    /\ suite[1][3] = PyDict([setup |-> Zeroed, args |-> <<PyInt(5)>>,
                              final |-> [s |-> PyInt(5)]])
    /\ statement[1].mark = FAILED
    /\ statement[1].msg =
           PyStr("invalid attributes set [n, s], expected [s], "
                 \o "excessive [n], missed []")

\* a missed attribute fails the test
C12_Missed ==
    /\ pc = "loop" /\ invoked = 1 /\ Len(statement) = 1
    /\ statement[1].mark = FAILED
    /\ statement[1].msg =
           PyStr("invalid attributes set [], expected [x], "
                 \o "excessive [], missed [x]")

\* the descriptor of scenario C
C13_Descriptor ==
    PyDict([setup |-> Zeroed, args |-> <<PyInt(5)>>, final |-> Zeroed])

\* Accum.add is called for the descriptor of scenario C and adds 5 to s
\* and 1 to n
C13_Case ==
    /\ Considering /\ invoked' = invoked + 1 /\ method = "add"
    /\ Cur[3] = C13_Descriptor
    /\ MethodOutcome.exc = NoExc
    /\ MethodOutcome.sandbox = [s |-> PyInt(5), n |-> PyInt(1)]

\* C13 as stated: the outcome of scenario C is FAILED and the message
\* reports attribute s, actual 5, expected 0.
C13_Original ==
    [][C13_Case
         => /\ Recorded(FAILED)
            /\ statement'[Len(statement')].msg
                   = PyStr("invalid attribute s=5, expected 0")]_vars

\* C13 amended: the outcome of scenario C is FAILED and the message
\* reports attribute n, actual 1, expected 0, the first attribute in
\* alphabetical order that differs.
C13_Amended ==
    [][C13_Case
         => /\ Recorded(FAILED)
            /\ statement'[Len(statement')].msg
                   = PyStr("invalid attribute n=1, expected 0")]_vars

C13_Witness ==
    /\ pc = "loop" /\ invoked = 1 /\ Len(statement) = 1 /\ method = "add"
    /\ suite[1][3] = C13_Descriptor
    /\ statement[1] = Rec(PyTid(<<"S", "1">>), FAILED,
                           PyStr("invalid attribute n=1, expected 0"))

SeverityArgs == {PyNone} \cup {PyInt(m) : m \in 0..3}

\* the number of records of the statement that carry a mark
C15_Count(mark) ==
    Cardinality({k \in 1..Len(statement) : statement[k].mark = mark})

RECURSIVE C15_Sum(_)
C15_Sum(tots) == IF tots = <<>> THEN 0 ELSE Head(tots).num + C15_Sum(Tail(tots))

\* the marks report_totals has to list for a severity
C15_Wanted(severity, zeros) ==
    {m \in 0..3 : ("int" \in DOMAIN severity => m >= severity.int)
                     /\ (zeros \/ C15_Count(m) > 0)}

\* C15: between calls of run(), report_totals(severity, zeros) lists
\* exactly the marks at or above severity (all four for None) that have
\* records or, with zeros, all of them, from CRASHED down to SUCCEEDED, each
\* with its verb and the number of records of the statement carrying it;
\* for severity None the numbers add up to the length of the statement.
C15_Totals ==
    pc = "idle" /\ runs > 0
       => \A severity \in SeverityArgs, zeros \in BOOLEAN :
            LET tots == report_totals(severity, zeros) IN
            /\ {tots[k].mark : k \in 1..Len(tots)} = C15_Wanted(severity, zeros)
            /\ \A k \in 1..Len(tots) :
                  /\ tots[k].num = C15_Count(tots[k].mark)
                  /\ tots[k].verb = MARKS[tots[k].mark].verb
                  /\ k > 1 => tots[k - 1].mark > tots[k].mark
            /\ "none" \in DOMAIN severity => C15_Sum(tots) = Len(statement)

\* a statement with a CRASHED and a SUCCEEDED record, reported with and
\* without the marks that have no record
C15_Witness ==
    /\ pc = "idle" /\ result = Returned /\ Len(statement) = 2
    /\ report_totals(PyNone, FALSE)
          = <<[mark |-> CRASHED, verb |-> "crashed", num |-> 1],
              [mark |-> SUCCEEDED, verb |-> "succeeded", num |-> 1]>>
    /\ report_totals(PyInt(SKIPPED), TRUE)
          = <<[mark |-> CRASHED, verb |-> "crashed", num |-> 1],
              [mark |-> FAILED, verb |-> "failed", num |-> 0],
              [mark |-> SKIPPED, verb |-> "skipped", num |-> 0]>>

\* the pictogram the report has for a mark
C16_Pictogram(mark) ==
    CASE mark = CRASHED -> "#"
      [] mark = FAILED -> "!"
      [] mark = SKIPPED -> "-"
      [] mark = SUCCEEDED -> "."

\* run() with no arguments returns for the suite {"S": {}} of the no-op
\* method my_method
C16_Example ==
    /\ method = "my_method" /\ suite = MakeSuite(Example1)
    /\ ~passed /\ skip = PyNone /\ single = PyNone
    /\ pc = "loop" /\ result' = Returned

\* C16: when a call of run() ends, report_bar() is a string of one
\* pictogram for each record of the statement, in the order of the
\* statement: '#' for CRASHED, '!' for FAILED, '-' for SKIPPED and '.' for
\* SUCCEEDED; for the suite {"S": {}} of a no-op method the statement is
\* the one record (S, SUCCEEDED, None) and the bar is ".".
C16_Bar ==
    [][pc' = "idle" /\ runs' > 0
         => LET st == statement'
                bar == report_bar'
            IN  /\ Len(bar) = Len(st)
                /\ \A k \in 1..Len(st) :
                      SubSeq(bar, k, k) = C16_Pictogram(st[k].mark)
                /\ C16_Example
                     => /\ st = <<Rec(PyTid(<<"S">>), SUCCEEDED, PyNone)>>
                        /\ bar = "."]_vars

C16_Witness ==
    /\ method = "my_method" /\ suite = MakeSuite(Example1)
    /\ pc = "idle" /\ result = Returned /\ ~passed /\ invoked = 1
    /\ statement = <<Rec(PyTid(<<"S">>), SUCCEEDED, PyNone)>>
    /\ report_bar = "."

\* a bar of two different pictograms
C16_Mixed ==
    /\ pc = "idle" /\ result = Returned
    /\ Len(statement) = 2
    /\ statement[1].mark = CRASHED /\ statement[2].mark = FAILED
    /\ report_bar = "#!"

\* s begins with the text p
C17_StartsWith(s, p) == Len(s) >= Len(p) /\ SubSeq(s, 1, Len(p)) = p

\* the check a message of harness() reports
C17_Reported(msg) ==
    IF \/ C17_StartsWith(msg, "unexpected exception ")
       \/ C17_StartsWith(msg, "different exception ")
       \/ C17_StartsWith(msg, "missed exception, ")
    THEN "exception"
    ELSE IF C17_StartsWith(msg, "invalid returns=") THEN "returns"
    ELSE IF C17_StartsWith(msg, "invalid attributes set ") THEN "final set"
    ELSE IF C17_StartsWith(msg, "invalid attribute ") THEN "final values"
    ELSE IF C17_StartsWith(msg, "different log ") THEN "logs"
    ELSE "other"

\* the first check, in the order exception, returns, final attribute set,
\* final attribute values, logs, that the outcome of the tested method
\* fails for the descriptor the loop is at; "none" when it passes them all
C17_FirstFailing ==
    LET d == Cur[3].dict
        out == MethodOutcome
    IN  IF ~C11_ExceptionPassed THEN "exception"
        ELSE IF C7_Has("returns") /\ out.ret # d["returns"] THEN "returns"
        ELSE IF C7_Has("final") /\ DOMAIN out.sandbox # DOMAIN d["final"]
        THEN "final set"
        ELSE IF /\ C7_Has("final")
                /\ \E a \in DOMAIN d["final"] : out.sandbox[a] # d["final"][a]
        THEN "final values"
        ELSE IF C7_Has("logs") /\ out.logged # d["logs"] THEN "logs"
        ELSE "none"

\* C17: for an executed test, whether or not the method raised the
\* declared exception, the record is SUCCEEDED only when no check fails,
\* and otherwise FAILED with the message of the first failing check in the
\* order exception, return value, final attribute set, final attribute
\* values, logs.
C17_FirstFailingDecides ==
    [][(Considering /\ invoked' = invoked + 1 /\ pc' = "loop")
         => IF C17_FirstFailing = "none"
            THEN Recorded(SUCCEEDED)
            ELSE /\ Recorded(FAILED)
                 /\ C17_Reported(statement'[Len(statement')].msg.str)
                       = C17_FirstFailing]_vars

\* the declared exception was raised and the declared logs were not logged
C17_Witness ==
    /\ pc = "loop" /\ invoked = 1 /\ Len(statement) = 1
    /\ suite[1][3] = PyDict([args |-> <<PyInt(7)>>, raises |-> Grade7,
                              logs |-> <<info("add: x=7")>>])
    /\ statement[1].mark = FAILED
    /\ statement[1].msg = PyStr("different log [], expected [I: add: x=7]")

\* the declared exception was raised and the declared final state was not
\* reached
C17_FinalAfterException ==
    /\ pc = "loop" /\ invoked = 1 /\ Len(statement) = 1
    /\ "raises" \in DOMAIN suite[1][3].dict
    /\ statement[1].mark = FAILED
    /\ statement[1].msg = PyStr("invalid attribute n=0, expected 1")

\* the number of SUCCEEDED and FAILED records among the records the
\* current call of run() appended
C18_Executed ==
    Cardinality({k \in (base + 1)..Len(statement) :
                    statement[k].mark \in {SUCCEEDED, FAILED}})

\* C18: in an iteration of the loop that run() survives, the tested method
\* is invoked once when the record appended is SUCCEEDED or FAILED, and
\* not at all when it is SKIPPED or CRASHED or when single omits the test;
\* when run() returns, the invocations it made are as many as the
\* SUCCEEDED and FAILED records it appended.
C18_OncePerExecuted ==
    [][/\ (pc = "loop" /\ idx <= Len(suite) /\ pc' = "loop")
           => /\ Recorded(SUCCEEDED) \/ Recorded(FAILED)
                    => invoked' = invoked + 1
              /\ Recorded(SKIPPED) \/ Recorded(CRASHED)
                    => invoked' = invoked
              /\ ~Considering
                    => invoked' = invoked /\ statement' = statement
              /\ invoked' = invoked + 1
                    => Recorded(SUCCEEDED) \/ Recorded(FAILED)
       /\ (pc = "loop" /\ pc' = "idle" /\ result' = Returned)
           => invoked' = C18_Executed']_vars

\* a completed run of two tests: one skipped, one executed
C18_Witness ==
    /\ pc = "idle" /\ result = Returned /\ Len(suite) = 2
    /\ Len(statement) = base + 2
    /\ statement[base + 1].mark = SUCCEEDED
    /\ statement[base + 2].mark = SKIPPED
    /\ invoked = 1

\* a completed loop in which single omitted one of two tests
C18_Omitted ==
    /\ pc = "loop" /\ idx > Len(suite) /\ Len(suite) = 2
    /\ Truthy(single) /\ Len(statement) = base + 1
    /\ statement[base + 1].mark = SUCCEEDED
    /\ invoked = 1

====
